---- MODULE Spec2Model ----
(***************************************************************************)
(* Model of the round-based negotiation loop of the multi-agent debate     *)
(* backend: the control surface of backend/main.py (create, status, start, *)
(* pause, resume, consensus) and DebateService.start_debate with its       *)
(* suspension points (every await on the LLM or on the Redis store).       *)
(* One session id is ever created.                                         *)
(* Handlers run on one asyncio event loop: the code between two awaits is  *)
(* one atomic action, and several start-debate requests may be suspended   *)
(* inside the loop at the same time.                                       *)
(***************************************************************************)
EXTENDS Integers, Sequences, FiniteSets, TLC

\* ---- bounds of the model -------------------------------------------------
MaxAgents == 2      \* participants per session: 1..MaxAgents
MaxRounds == 3      \* session.max_rounds (10 by default): 1..MaxRounds
MaxTurns  == 4      \* participants * max_rounds of a session
MaxRuns   == 2      \* start-debate requests a behaviour may issue
MaxGenFailures == 1 \* generation calls that raise in one behaviour

\* ---- program constants ---------------------------------------------------
ConsensusThreshold == 7   \* debate_consensus_threshold = 0.7, in tenths

Runs       == 1..MaxRuns
SessionIds == {1}         \* the id create_session returns
Levels     == {5, 10}     \* consensus_level in tenths, below and above 0.7

NoResult  == [consensus_reached |-> FALSE, consensus_level |-> -1]
NoMessage == [agent_id |-> 0, round_number |-> 0, error |-> FALSE]
NoMark    == [phase |-> "none", k |-> 0]
NoSession == [status |-> "none", current_round |-> 0,
              consensus_reached |-> FALSE, consensus_result |-> NoResult]

VARIABLES
  evaluator,          \* "stub": evaluate_consensus as written; "pluggable": any policy
  debate_sessions,    \* main.debate_sessions: set of registered session ids
  agents,             \* number of participants; session.agents = <<1, .., agents>>
  agent_registry,     \* DebateService.agent_registry: ids that have an ADK agent
  status,             \* session.status
  current_round,      \* session.current_round
  max_rounds,         \* session.max_rounds
  consensus_reached,  \* session.consensus_reached
  consensus_result,   \* session.consensus_result (NoResult: None)
  messages,           \* session.messages, the transcript
  run,                \* per start-debate request: the frame of start_debate
  store_messages,     \* Redis list debate_messages:<id> (head first)
  store_session,      \* Redis key session:<id>
  response,           \* status code of the last handler that answered at once
  completed,          \* history: rounds whose consensus check has been invoked
  pause_mark,         \* history: the last pause request and whether it was resumed
  sessions,           \* two sessions: main.debate_sessions, id -> session
  loops,              \* two sessions: id -> frame of the session's start_debate
  redis,              \* two sessions: the Redis server both write to, key -> value
  evaluated,          \* history: id -> results of the evaluations of the session
                      \* since any operation on it (<< >>: none)
  roster,             \* roster creation: the frame of a generate_agents call
  sanitize,           \* name sanitizer: the name given and the string returned
  ctx_messages,       \* context of a turn: session.messages
  ctx_round,          \* context of a turn: session.current_round
  ctx_run,            \* context of a turn: per request, the frame of start_debate
  recent,             \* recent-turns read: the last get_recent_messages call
  memory,             \* memory tool: Redis key agent_memory:<S>:<P> (<< >>: absent)
  calls               \* memory tool: per caller, the frame of AgentMemoryTool.execute

sessionVars == <<status, current_round, max_rounds, consensus_reached,
                 consensus_result, messages>>
storeVars   == <<store_messages, store_session>>
twoVars     == <<sessions, loops, redis, evaluated>>
rosterVars  == <<roster, sanitize>>
contextVars == <<ctx_messages, ctx_round, ctx_run>>
recentVars  == <<recent>>
memoryVars  == <<memory, calls>>
sideVars    == <<contextVars, recentVars, memoryVars>>
vars == <<evaluator, debate_sessions, agents, agent_registry, sessionVars,
          run, storeVars, response, completed, pause_mark, twoVars,
          rosterVars, sideVars>>

\* ---- pure helpers --------------------------------------------------------

\* evaluate_consensus: the stub of the source returns the same dict always.
\* The loop (lines 132-138) handles any result, so a session may also run
\* with evaluate_consensus replaced by a pluggable policy (evaluator =
\* "pluggable"), which returns any well-formed result or raises.
StubResult == [consensus_reached |-> FALSE, consensus_level |-> 0]

\* Results an evaluation may return to its caller.
EvaluatorResults ==
  IF evaluator = "stub"
  THEN {StubResult}
  ELSE {StubResult} \cup [consensus_reached : {TRUE}, consensus_level : Levels]

\* Whether an evaluation may raise: the stub cannot.
EvaluatorRaises == evaluator = "pluggable"

\* for agent in session.agents: first position >= i whose agent has an ADK
\* agent in the registry (the others are skipped by `continue`); 0 if none.
NextRegistered(i) ==
  LET later == {a \in agent_registry : a >= i /\ a <= agents}
  IN  IF later = {} THEN 0 ELSE CHOOSE a \in later : \A b \in later : a <= b

\* session.dict(): the fields of the session store_session serialises (the
\* transcript of the store is the Redis list, store_messages).
Snapshot(st, cr, reached, result) ==
  [status |-> st, current_round |-> cr, consensus_reached |-> reached,
   consensus_result |-> result]

\* The frame of one call of start_debate: where it is suspended (pc), the
\* round range's end (stop, max_rounds read at line 67), the loop variables
\* round_num and agent_idx (position in session.agents), the local message
\* while it is being stored, the session.dict() store_session is writing,
\* and, once it has left by an exception, what raised it (detail).
Frame(p, last, R, i, m, snap) ==
  [pc |-> p, stop |-> last, round_num |-> R, agent_idx |-> i,
   message |-> m, pending |-> snap, detail |-> "none"]

Idle == Frame("idle", 0, 0, 0, NoMessage, NoSession)

\* start_debate returned: main.start_debate replies 200.
Returned == Frame("done", 0, 0, 0, NoMessage, NoSession)

\* start_debate left by an exception raised by `what`: main.start_debate
\* replies HTTP 500 with the exception as detail.
Raised(what) ==
  [Frame("failed", 0, 0, 0, NoMessage, NoSession) EXCEPT !.detail = what]

Free(r) == run[r].pc = "idle"

FreeRun == CHOOSE r \in Runs : Free(r) /\ \A q \in Runs : Free(q) => r <= q

Active(r) == run[r].pc \notin {"idle", "done", "failed"}

\* create_session found an ADK agent for every participant of the session.
AllRegistered == agent_registry = 1..agents

\* Only the first start-debate request has been made so far.
SingleRun == \A r \in Runs : r > 1 => Free(r)

\* ---- the negotiation loop (DebateService.start_debate) --------------------

\* The consensus check with line 135 left out: consensus is recorded and the
\* status set, but session.consensus_result keeps its value.
ConsensusCheckDropsResult(r, R, last, st, cr) ==
  /\ completed' = completed \cup {R}
  /\ \/ \E res \in EvaluatorResults :
          IF res.consensus_reached
          THEN /\ consensus_reached' = TRUE
               /\ consensus_result' = consensus_result
               /\ status' = "consensus_reached"
               /\ run' = [run EXCEPT ![r] = Returned]
          ELSE /\ status' = st
               /\ UNCHANGED <<consensus_reached, consensus_result>>
               /\ run' = [run EXCEPT ![r] =
                    Frame("store_session", last, R, 0, NoMessage,
                          Snapshot(st, cr, consensus_reached,
                                   consensus_result))]
     \/ /\ EvaluatorRaises
        /\ status' = st
        /\ UNCHANGED <<consensus_reached, consensus_result>>
        /\ run' = [run EXCEPT ![r] = Raised("evaluator")]

\* Lines 131-140: the consensus check after the last participant of round R
\* (last: the end of the run's round range). st, cr are the values status
\* and current_round have when it runs.
ConsensusCheck(r, R, last, st, cr) ==
  /\ completed' = completed \cup {R}
  /\ \/ \E res \in EvaluatorResults :
          IF res.consensus_reached
          THEN \* lines 134-138, then line 142 finds consensus_reached set
               /\ consensus_reached' = TRUE
               /\ consensus_result' = res
               /\ status' = "consensus_reached"
               /\ run' = [run EXCEPT ![r] = Returned]
          ELSE \* line 140: store_session takes session.dict(), awaits Redis
               /\ status' = st
               /\ UNCHANGED <<consensus_reached, consensus_result>>
               /\ run' = [run EXCEPT ![r] =
                    Frame("store_session", last, R, 0, NoMessage,
                          Snapshot(st, cr, consensus_reached,
                                   consensus_result))]
     \/ \* the evaluation raises: nothing catches it inside start_debate
        /\ EvaluatorRaises
        /\ status' = st
        /\ UNCHANGED <<consensus_reached, consensus_result>>
        /\ run' = [run EXCEPT ![r] = Raised("evaluator")]

\* Lines 72-92: the participant loop of round R continued at position i.
\* A participant without a registry entry is skipped; for the next one the
\* context is built and the run suspends (get_agent_memory, then the
\* generation call).
RoundBody(r, R, i, last, st, cr) ==
  LET nxt == NextRegistered(i)
  IN  IF nxt # 0
      THEN /\ run' = [run EXCEPT ![r] =
                Frame("generate", last, R, nxt, NoMessage, NoSession)]
           /\ status' = st
           /\ UNCHANGED <<consensus_reached, consensus_result, completed>>
      ELSE ConsensusCheck(r, R, last, st, cr)

\* Lines 141-145: the round range is exhausted.
LoopExit(r, st, cr) ==
  /\ UNCHANGED <<consensus_reached, consensus_result, completed>>
  /\ IF ~consensus_reached
     THEN /\ status' = "ended"
          /\ run' = [run EXCEPT ![r] =
               Frame("store_final", 0, 0, 0, NoMessage,
                     Snapshot("ended", cr, consensus_reached,
                              consensus_result))]
     ELSE /\ status' = st
          /\ run' = [run EXCEPT ![r] = Returned]

\* Lines 68-70: the next value R of range(first, last + 1), or the loop's end.
NextRound(r, R, last, st) ==
  IF R <= last
  THEN /\ current_round' = R
       /\ RoundBody(r, R, 1, last, st, R)
  ELSE /\ UNCHANGED current_round
       /\ LoopExit(r, st, current_round)

\* Generation calls that have raised so far: each left one fallback turn.
GenFailures == Cardinality({i \in 1..Len(messages) : messages[i].error})

\* start_debate without the except clause of lines 115-126: a generation call
\* that raises leaves the loop and no turn is appended.
GenerateAborts(r, ok) ==
  /\ run[r].pc = "generate"
  /\ ~ok => GenFailures < MaxGenFailures
  /\ IF ok
     THEN LET m == [agent_id |-> run[r].agent_idx,
                    round_number |-> run[r].round_num, error |-> FALSE]
          IN  /\ messages' = Append(messages, m)
              /\ run' = [run EXCEPT ![r].pc = "store_message",
                                    ![r].message = m]
     ELSE /\ messages' = messages
          /\ run' = [run EXCEPT ![r] = Raised("generation")]
  /\ UNCHANGED <<evaluator, debate_sessions, agents, agent_registry, status,
                 current_round, max_rounds, consensus_reached,
                 consensus_result, storeVars, response, completed>>

\* Generate with the transcript rebuilt instead of appended to: the new turn
\* takes the place of the last one.
GenerateOverwrites(r, ok) ==
  /\ run[r].pc = "generate"
  /\ ~ok => GenFailures < MaxGenFailures
  /\ LET m == [agent_id |-> run[r].agent_idx,
               round_number |-> run[r].round_num, error |-> ~ok]
     IN  /\ messages' = IF messages = << >> THEN <<m>>
                        ELSE [messages EXCEPT ![Len(messages)] = m]
         /\ run' = [run EXCEPT ![r].pc = "store_message", ![r].message = m]
  /\ UNCHANGED <<evaluator, debate_sessions, agents, agent_registry, status,
                 current_round, max_rounds, consensus_reached,
                 consensus_result, storeVars, response, completed>>

\* Lines 82-130: the try block returns (ok) or raises, be it the provider
\* call or the read of agent.llm_provider on a participant that has no such
\* attribute; the turn or the fallback turn (metadata = {"error": ..}) is
\* appended and the run suspends in store_debate_message.
Generate(r, ok) ==
  /\ run[r].pc = "generate"
  /\ ~ok => GenFailures < MaxGenFailures
  /\ LET m == [agent_id |-> run[r].agent_idx,
               round_number |-> run[r].round_num, error |-> ~ok]
     IN  /\ messages' = Append(messages, m)
         /\ run' = [run EXCEPT ![r].pc = "store_message", ![r].message = m]
  /\ UNCHANGED <<evaluator, debate_sessions, agents, agent_registry, status,
                 current_round, max_rounds, consensus_reached,
                 consensus_result, storeVars, response, completed>>

\* start_debate with the store call of line 130 wrapped like the generation
\* call: a store failure is logged and the participant loop goes on.
StoreMessageAbsorbs(r, outcome) ==
  /\ run[r].pc = "store_message"
  /\ store_messages' = IF outcome = "lpush_raises" THEN store_messages
                       ELSE <<run[r].message>> \o store_messages
  /\ UNCHANGED <<evaluator, debate_sessions, agents, agent_registry,
                 max_rounds, messages, current_round, store_session,
                 response>>
  /\ RoundBody(r, run[r].round_num, run[r].agent_idx + 1, run[r].stop,
               status, current_round)

\* store_debate_message returns: lpush then expire; either may raise, and the
\* exception leaves the loop. On success the participant loop goes on.
StoreMessage(r, outcome) ==
  /\ run[r].pc = "store_message"
  /\ store_messages' = IF outcome = "lpush_raises" THEN store_messages
                       ELSE <<run[r].message>> \o store_messages
  /\ UNCHANGED <<evaluator, debate_sessions, agents, agent_registry,
                 max_rounds, messages, current_round, store_session,
                 response>>
  /\ IF outcome = "ok"
     THEN RoundBody(r, run[r].round_num, run[r].agent_idx + 1, run[r].stop,
                    status, current_round)
     ELSE /\ run' = [run EXCEPT ![r] = Raised("store")]
          /\ UNCHANGED <<status, consensus_reached, consensus_result, completed>>

\* store_session of line 140 returns or raises.
StoreSession(r, ok) ==
  /\ run[r].pc = "store_session"
  /\ UNCHANGED <<evaluator, debate_sessions, agents, agent_registry,
                 max_rounds, messages, store_messages, response>>
  /\ IF ok
     THEN /\ store_session' = run[r].pending
          /\ NextRound(r, run[r].round_num + 1, run[r].stop, status)
     ELSE /\ run' = [run EXCEPT ![r] = Raised("store")]
          /\ UNCHANGED <<store_session, status, current_round,
                         consensus_reached, consensus_result, completed>>

\* store_session of line 144 returns or raises; start_debate is over.
StoreFinal(r, ok) ==
  /\ run[r].pc = "store_final"
  /\ store_session' = IF ok THEN run[r].pending ELSE store_session
  /\ run' = [run EXCEPT ![r] = IF ok THEN Returned ELSE Raised("store")]
  /\ UNCHANGED <<evaluator, debate_sessions, agents, agent_registry,
                 sessionVars, store_messages, response, completed>>

\* ---- the control surface (backend/main.py) --------------------------------

\* start_debate_session with the registration moved before create_session
\* returns: the session is entered in debate_sessions although persisting it
\* failed and the request is answered 500.
StartDebateSessionRegistersFirst(n, m, reg, ok) ==
  /\ debate_sessions = {}
  /\ n * m <= MaxTurns
  /\ debate_sessions' = {1}
  /\ agents' = n
  /\ agent_registry' = reg
  /\ max_rounds' = m
  /\ status' = "created"
  /\ current_round' = 0
  /\ consensus_reached' = FALSE
  /\ consensus_result' = NoResult
  /\ messages' = << >>
  /\ store_session' = IF ok THEN Snapshot("created", 0, FALSE, NoResult)
                      ELSE store_session
  /\ response' = IF ok THEN 200 ELSE 500
  /\ UNCHANGED <<evaluator, run, store_messages, completed>>

\* POST /api/v1/sessions/start: generate_agents, DebateService.create_session
\* (an ADK agent per participant, a failure leaves the participant out of
\* agent_registry), store_session, then the registration in debate_sessions.
\* A store failure raises before the registration.
StartDebateSession(n, m, reg, ok) ==
  /\ debate_sessions = {}
  /\ n * m <= MaxTurns
  /\ IF ok
     THEN /\ debate_sessions' = {1}
          /\ agents' = n
          /\ agent_registry' = reg
          /\ max_rounds' = m
          /\ status' = "created"
          /\ current_round' = 0
          /\ consensus_reached' = FALSE
          /\ consensus_result' = NoResult
          /\ messages' = << >>
          /\ store_session' = Snapshot("created", 0, FALSE, NoResult)
          /\ response' = 200
     ELSE /\ response' = 500
          /\ UNCHANGED <<debate_sessions, agents, agent_registry, sessionVars,
                         store_session>>
  /\ UNCHANGED <<evaluator, run, store_messages, completed>>

\* GET /api/v1/sessions/{id}: reads the session, changes nothing.
GetSessionStatus(id) ==
  /\ response' = IF id \in debate_sessions THEN 200 ELSE 404
  /\ UNCHANGED <<evaluator, debate_sessions, agents, agent_registry,
                 sessionVars, run, storeVars, completed>>

\* The body of the reply of GetSessionStatus for a registered session.
StatusBody ==
  [status |-> status, current_round |-> current_round,
   consensus_reached |-> consensus_reached]

\* POST /api/v1/sessions/{id}/start-debate: sets status and runs the loop up
\* to its first await; the reply is sent when the loop leaves.
StartDebate(id) ==
  /\ \E r \in Runs : Free(r)
  /\ IF id \in debate_sessions
     THEN /\ NextRound(FreeRun, current_round + 1, max_rounds, "debating")
          /\ UNCHANGED response
     ELSE /\ response' = 404
          /\ UNCHANGED <<status, current_round, consensus_reached,
                         consensus_result, run, completed>>
  /\ UNCHANGED <<evaluator, debate_sessions, agents, agent_registry,
                 max_rounds, messages, storeVars>>

\* pause_debate without the membership test of lines 169-170: the request
\* pauses the session whatever id it carries.
PauseDebateUnchecked(id) ==
  /\ status' = "paused"
  /\ response' = 200
  /\ UNCHANGED <<evaluator, debate_sessions, agents, agent_registry,
                 current_round, max_rounds, consensus_reached,
                 consensus_result, messages, run, storeVars, completed>>

\* POST /api/v1/sessions/{id}/pause
PauseDebate(id) ==
  /\ IF id \in debate_sessions
     THEN status' = "paused" /\ response' = 200
     ELSE response' = 404 /\ UNCHANGED status
  /\ UNCHANGED <<evaluator, debate_sessions, agents, agent_registry,
                 current_round, max_rounds, consensus_reached,
                 consensus_result, messages, run, storeVars, completed>>

\* POST /api/v1/sessions/{id}/resume
ResumeDebate(id) ==
  /\ IF id \in debate_sessions
     THEN status' = "debating" /\ response' = 200
     ELSE response' = 404 /\ UNCHANGED status
  /\ UNCHANGED <<evaluator, debate_sessions, agents, agent_registry,
                 current_round, max_rounds, consensus_reached,
                 consensus_result, messages, run, storeVars, completed>>

\* POST /api/v1/sessions/{id}/consensus: evaluates and reports, stores nothing.
TriggerConsensus(id, raises) ==
  /\ raises => EvaluatorRaises
  /\ response' = IF id \notin debate_sessions THEN 404
                 ELSE IF raises THEN 500 ELSE 200
  /\ UNCHANGED <<evaluator, debate_sessions, agents, agent_registry,
                 sessionVars, run, storeVars, completed>>

\* ---- two sessions on one server: the state --------------------------------

\* Bounds of the two-session model: every session has TwoAgents participants
\* and max_rounds = TwoRounds.
TwoAgents == 1
TwoRounds == 2

\* The ids (uuid4 strings) of the two sessions.
TwoIds == {"A", "B"}

\* Agent.id of the participant at position i of session.agents. The two
\* sessions' participants carry the same ids: only the session id tells
\* their keys apart.
AgentId(i) == IF i = 1 THEN "a1" ELSE IF i = 2 THEN "a2" ELSE "a3"

AgentIds == {AgentId(i) : i \in 1..TwoAgents}

\* Redis keys, as the segments of the key string between the colons:
\* session:<id>, debate_messages:<id>, agent_memory:<id>:<agent>.
Keys ==
  {<<"session", id>> : id \in TwoIds}
    \cup {<<"debate_messages", id>> : id \in TwoIds}
    \cup {<<"agent_memory", id, a>> : id \in TwoIds, a \in AgentIds}

\* The keys whose name carries the session id `id`.
KeysOf(id) == {k \in Keys : k[2] = id}

\* debate_sessions has no entry for the id.
NoEntry == [status |-> "none", current_round |-> 0, messages |-> << >>]

\* start_debate was not requested for the session.
NoLoop == [pc |-> "idle", round_num |-> 0, agent_idx |-> 0]

\* ---- roster creation: the state -----------------------------------------------

\* No generate_agents call has been made.
NoCall == [pc |-> "idle", count |-> 0, custom |-> << >>, available |-> 0,
           tried |-> 0, calls |-> 0, source |-> "none", agents |-> << >>]

\* No name has been given to the sanitizer.
NoName == [name |-> << >>, out |-> << >>, done |-> FALSE]

\* ---- context of a turn: the state -------------------------------------------

CtxAgents == 2      \* participants of the session, all with an ADK agent
CtxRounds == 4      \* session.max_rounds
CtxRuns   == 2      \* start-debate requests a behaviour may issue

\* debate_service.py:165: the context holds the last 5 turns.
RecentWindow == 5

CtxRunIds == 1..CtxRuns

\* The context dict before any was built, and the local `messages` of
\* _build_agent_context before line 165 ran.
NoContext == [recent_messages |-> << >>, agent_memory |-> "none", round |-> 0]
NoLocal   == [alias |-> FALSE, copy |-> << >>]

\* A frame of start_debate in this model: pc, round_num and agent_idx as in
\* Frame; local is `messages` of _build_agent_context while it is suspended,
\* context the dict it returned; at_call records session.messages as it was
\* at the call.
CtxFrame(p, R, i, loc, c, t) ==
  [pc |-> p, round_num |-> R, agent_idx |-> i, local |-> loc, context |-> c,
   at_call |-> t]

CtxIdle == CtxFrame("idle", 0, 0, NoLocal, NoContext, << >>)
CtxDone == CtxFrame("done", 0, 0, NoLocal, NoContext, << >>)

\* The session of this model exists from the start: created, no turn yet.
InitContext ==
  /\ ctx_messages = << >>
  /\ ctx_round = 0
  /\ ctx_run = [r \in CtxRunIds |-> CtxIdle]

\* ---- recent-turns read and memory tool: the state ---------------------------

\* get_recent_messages was not called.
NoRecent == [called |-> FALSE, limit |-> 0, total |-> 0, ok |-> TRUE,
             data |-> << >>]

MaxCallers == 2     \* concurrent calls of AgentMemoryTool.execute
Callers == 1..MaxCallers

\* No call of the memory tool by the caller.
NoToolCall == [pc |-> "idle", operation |-> "none", value |-> "",
               read_ok |-> TRUE, local |-> << >>, success |-> FALSE]

InitSide ==
  /\ InitContext
  /\ recent = NoRecent
  /\ memory = << >>
  /\ calls = [c \in Callers |-> NoToolCall]

\* ---- specification ----------------------------------------------------------

\* The application after construction: no session, no request in flight.
InitApp ==
  /\ evaluator \in {"stub", "pluggable"}
  /\ debate_sessions = {}
  /\ agents = 0
  /\ agent_registry = {}
  /\ status = "none"
  /\ current_round = 0
  /\ max_rounds = 0
  /\ consensus_reached = FALSE
  /\ consensus_result = NoResult
  /\ messages = << >>
  /\ run = [r \in Runs |-> Idle]
  /\ store_messages = << >>
  /\ store_session = NoSession
  /\ response = 0
  /\ completed = {}
  /\ pause_mark = NoMark
  /\ sessions = [id \in TwoIds |-> NoEntry]
  /\ loops = [id \in TwoIds |-> NoLoop]
  /\ redis = [k \in Keys |-> << >>]
  /\ evaluated = [id \in TwoIds |-> << >>]

Init ==
  /\ InitApp
  /\ roster = NoCall
  /\ sanitize = NoName
  /\ InitSide

\* The history variable pause_mark belongs to SpecPause; here it stays put.
Next ==
  \/ \E n \in 1..MaxAgents, m \in 1..MaxRounds, ok \in BOOLEAN :
       \E reg \in SUBSET (1..n) :
         StartDebateSession(n, m, reg, ok) /\ UNCHANGED <<pause_mark, twoVars, rosterVars, sideVars>>
  \/ \E id \in SessionIds : GetSessionStatus(id) /\ UNCHANGED <<pause_mark, twoVars, rosterVars, sideVars>>
  \/ \E id \in SessionIds, raises \in BOOLEAN :
       TriggerConsensus(id, raises) /\ UNCHANGED <<pause_mark, twoVars, rosterVars, sideVars>>
  \/ \E id \in SessionIds : StartDebate(id) /\ UNCHANGED <<pause_mark, twoVars, rosterVars, sideVars>>
  \/ \E id \in SessionIds : PauseDebate(id) /\ UNCHANGED <<pause_mark, twoVars, rosterVars, sideVars>>
  \/ \E id \in SessionIds : ResumeDebate(id) /\ UNCHANGED <<pause_mark, twoVars, rosterVars, sideVars>>
  \/ \E r \in Runs, ok \in BOOLEAN : Generate(r, ok) /\ UNCHANGED <<pause_mark, twoVars, rosterVars, sideVars>>
  \/ \E r \in Runs, outcome \in {"ok", "lpush_raises", "expire_raises"} :
       StoreMessage(r, outcome) /\ UNCHANGED <<pause_mark, twoVars, rosterVars, sideVars>>
  \/ \E r \in Runs, ok \in BOOLEAN : StoreSession(r, ok) /\ UNCHANGED <<pause_mark, twoVars, rosterVars, sideVars>>
  \/ \E r \in Runs, ok \in BOOLEAN : StoreFinal(r, ok) /\ UNCHANGED <<pause_mark, twoVars, rosterVars, sideVars>>

Spec == Init /\ [][Next]_vars

\* The program as written: evaluate_consensus is the stub of the source.
InitStub == Init /\ evaluator = "stub"

SpecStub == InitStub /\ [][Next]_vars

\* ---- the same program with the pause history recorded ----------------------

\* Rounds completed so far: the last round whose consensus check was invoked.
RoundsCompleted ==
  IF completed = {} THEN 0
  ELSE CHOOSE k \in completed : \A j \in completed : j <= k

\* The transcript holds whole rounds only: no turn of a round whose consensus
\* check is still to come.
BetweenRounds ==
  \A i \in 1..Len(messages) : messages[i].round_number <= RoundsCompleted

\* A pause request that arrives between two rounds notes how many rounds are
\* complete; the resume request that follows it starts the wait for the next
\* turn; the next turn ends it. A start request in between makes it another
\* scenario: the mark is dropped.
NextPause ==
  \/ \E n \in 1..MaxAgents, m \in 1..MaxRounds, ok \in BOOLEAN :
       \E reg \in SUBSET (1..n) :
         StartDebateSession(n, m, reg, ok) /\ UNCHANGED <<pause_mark, twoVars, rosterVars, sideVars>>
  \/ \E id \in SessionIds : GetSessionStatus(id) /\ UNCHANGED <<pause_mark, twoVars, rosterVars, sideVars>>
  \/ \E id \in SessionIds, raises \in BOOLEAN :
       TriggerConsensus(id, raises) /\ UNCHANGED <<pause_mark, twoVars, rosterVars, sideVars>>
  \/ \E id \in SessionIds :
       /\ StartDebate(id)
       /\ pause_mark' = NoMark
       /\ UNCHANGED <<twoVars, rosterVars, sideVars>>
  \/ \E id \in SessionIds :
       /\ PauseDebate(id)
       /\ pause_mark' = IF id \in debate_sessions /\ BetweenRounds
                        THEN [phase |-> "paused", k |-> RoundsCompleted]
                        ELSE NoMark
       /\ UNCHANGED <<twoVars, rosterVars, sideVars>>
  \/ \E id \in SessionIds :
       /\ ResumeDebate(id)
       /\ pause_mark' = IF id \in debate_sessions /\ pause_mark.phase = "paused"
                        THEN [pause_mark EXCEPT !.phase = "resumed"]
                        ELSE pause_mark
       /\ UNCHANGED <<twoVars, rosterVars, sideVars>>
  \/ \E r \in Runs, ok \in BOOLEAN :
       /\ Generate(r, ok)
       /\ pause_mark' = IF pause_mark.phase = "resumed" THEN NoMark
                        ELSE pause_mark
       /\ UNCHANGED <<twoVars, rosterVars, sideVars>>
  \/ \E r \in Runs, outcome \in {"ok", "lpush_raises", "expire_raises"} :
       StoreMessage(r, outcome) /\ UNCHANGED <<pause_mark, twoVars, rosterVars, sideVars>>
  \/ \E r \in Runs, ok \in BOOLEAN : StoreSession(r, ok) /\ UNCHANGED <<pause_mark, twoVars, rosterVars, sideVars>>
  \/ \E r \in Runs, ok \in BOOLEAN : StoreFinal(r, ok) /\ UNCHANGED <<pause_mark, twoVars, rosterVars, sideVars>>

SpecPause == InitStub /\ [][NextPause]_vars

\* ---- properties of the transcript -------------------------------------------

\* Positions of the transcript holding a turn of round R.
TurnsOf(R) == {i \in 1..Len(messages) : messages[i].round_number = R}

Last(seq) == seq[Len(seq)]

\* The step appends exactly one turn to the transcript.
AppendsOneTurn ==
  /\ Len(messages') = Len(messages) + 1
  /\ SubSeq(messages', 1, Len(messages)) = messages

\* ---- claims ------------------------------------------------------------------

\* C1: every round whose participants were all processed and whose consensus
\* check was invoked has exactly one turn per participant of the session.
C1_TurnsPerCompletedRound ==
  \A R \in completed : Cardinality(TurnsOf(R)) = agents

\* C2: current_round never exceeds max_rounds, and status ended implies
\* current_round = max_rounds and consensus_reached = FALSE (shown on
\* sessions whose participants all have their ADK agent).
C2_RoundCeilingAndEnded ==
  AllRegistered =>
    /\ current_round <= max_rounds
    /\ status = "ended" => current_round = max_rounds /\ ~consensus_reached

C4_ExhaustedDebate ==
  [][(/\ run[1].pc = "store_session"
      /\ run'[1].pc = "store_final"
      /\ SingleRun
      /\ GenFailures = 0)
     => /\ status' = "ended"
        /\ current_round' = max_rounds
        /\ Len(messages') = max_rounds * agents]_vars

\* C5: a generation call that raises never leaves start_debate: the step
\* appends exactly one turn for the participant and round at hand, marked as
\* an error exactly when the call raised, and the run goes on to store it;
\* a run is only ever left by an exception of the store or of the evaluator.
C5_GenerationFailureAbsorbed ==
  /\ [](\A r \in Runs : run[r].pc = "failed" =>
          run[r].detail \in {"store", "evaluator"})
  /\ [][\A r \in Runs, ok \in BOOLEAN :
          Generate(r, ok) =>
            /\ AppendsOneTurn
            /\ Last(messages') = [agent_id |-> run[r].agent_idx,
                                  round_number |-> run[r].round_num,
                                  error |-> ~ok]
            /\ run'[r].pc = "store_message"
            /\ run'[r].round_num = run[r].round_num
            /\ run'[r].agent_idx = run[r].agent_idx]_vars

\* C5 witness: a fallback turn is in the transcript and the loop went on: the
\* turn of the next participant of the same round follows it, and a turn of
\* the next round too, while no run has been left by an exception.
C5_Witness ==
  /\ \A r \in Runs : run[r].pc # "failed"
  /\ \E i, j, k \in 1..Len(messages) :
       /\ i < j /\ j < k
       /\ messages[i].error
       /\ messages[j].round_number = messages[i].round_number
       /\ messages[j].agent_id > messages[i].agent_id
       /\ messages[k].round_number > messages[i].round_number

\* C6: within every round the turns appear in registry order: the turn of
\* the participant at position a precedes the turn of the one at b > a.
C6_RegistryOrder ==
  AllRegistered =>
    \A i, j \in 1..Len(messages) :
      (/\ messages[i].round_number = messages[j].round_number
       /\ messages[i].agent_id < messages[j].agent_id) => i < j

\* C7: while the status is paused, current_round does not advance and no
\* participant is invoked: no run begins the turn of a participant (context
\* and generation call) that it had not begun before.
C7_PausedStandsStill ==
  [][(AllRegistered /\ status = "paused" /\ status' = "paused") =>
       (/\ current_round' = current_round
        /\ \A r \in Runs :
             run'[r].pc = "generate" =>
               (/\ run[r].pc = "generate"
                /\ run'[r].round_num = run[r].round_num
                /\ run'[r].agent_idx = run[r].agent_idx))]_vars

\* C8: after a pause requested when k >= 1 rounds are complete and no turn of
\* round k + 1 exists, and the resume that follows it, the first turn the
\* debate produces has round_number = k + 1 (one start-debate request only).
C8_ResumeContinuesAtNextRound ==
  [][(/\ SingleRun
      /\ AllRegistered
      /\ pause_mark.phase = "resumed"
      /\ pause_mark.k >= 1
      /\ messages' # messages) =>
       Last(messages').round_number = pause_mark.k + 1]_vars

\* C9: consensus_reached and ended are terminal: no step changes the status
\* of a session that has one of them.
C9_TerminalStatus ==
  [][(AllRegistered /\ status \in {"consensus_reached", "ended"}) =>
       (status' = status)]_vars

\* C10: a start request on a paused, ended or consensus_reached session is
\* rejected: it appends no turn and changes neither current_round nor status.
C10_StartRejected ==
  [][\A id \in SessionIds :
       (/\ AllRegistered
        /\ status \in {"paused", "ended", "consensus_reached"}
        /\ StartDebate(id))
         => UNCHANGED <<status, current_round, messages>>]_vars

\* The edges of the status state machine, with the creation of the session.
StatusEdges ==
  {<<"none", "created">>, <<"created", "debating">>,
   <<"debating", "paused">>, <<"paused", "debating">>,
   <<"debating", "consensus_reached">>, <<"debating", "ended">>}

\* C11: every change of the session's status follows an edge of the state
\* machine created -> debating -> {paused <-> debating} ->
\* {consensus_reached | ended}.
C11_StatusEdgesOnly ==
  [][(AllRegistered' /\ status' # status) =>
       (<<status, status'>> \in StatusEdges)]_vars

\* C12: at most one run of the negotiation loop is active (suspended at a
\* generation or store call) on the session at any time.
C12_SingleLoopPerSession ==
  AllRegistered => Cardinality({r \in Runs : Active(r)}) <= 1

StoreFails(r) ==
  \/ StoreMessage(r, "lpush_raises")
  \/ StoreMessage(r, "expire_raises")
  \/ StoreSession(r, FALSE)
  \/ StoreFinal(r, FALSE)

\* C14: a store call that raises while a turn or the session is persisted
\* leaves start_debate as a failure of the store (the request is answered
\* 500) without advancing the round or invoking a participant, and a run
\* that has left by a failure never acts again.
C14_StoreFailurePropagates ==
  /\ [][\A r \in Runs :
          StoreFails(r) =>
            /\ run'[r].pc = "failed"
            /\ run'[r].detail = "store"
            /\ current_round' = current_round
            /\ messages' = messages]_vars
  /\ [][\A r \in Runs : run[r].pc = "failed" => run'[r] = run[r]]_vars

\* C14 witness: a run was left by a store failure while persisting a turn that
\* is in the transcript, and participants of that round were still to come.
C14_Witness ==
  \E r \in Runs :
    /\ run[r].pc = "failed"
    /\ run[r].detail = "store"
    /\ Len(messages) >= 1
    /\ Len(store_messages) < Len(messages)
    /\ Last(messages).agent_id < agents
    /\ AllRegistered

\* C15: a start request made while no loop is running (the earlier run, if
\* any, has returned or was left by a failure) that begins round R + 1 finds
\* round R committed: every participant's turn of round R is in the transcript.
C15_RetryRunsTheFailedRound ==
  [][\A id \in SessionIds :
       (/\ StartDebate(id)
        /\ AllRegistered
        /\ \A r \in Runs : ~Active(r)
        /\ current_round >= 1
        /\ current_round' = current_round + 1)
         => Cardinality(TurnsOf(current_round)) = agents]_vars

RequestIds == SessionIds \cup {2}

NextUnknown ==
  \/ \E n \in 1..MaxAgents, m \in 1..MaxRounds, ok \in BOOLEAN :
       \E reg \in SUBSET (1..n) :
         StartDebateSession(n, m, reg, ok) /\ UNCHANGED <<pause_mark, twoVars, rosterVars, sideVars>>
  \/ \E id \in RequestIds : GetSessionStatus(id) /\ UNCHANGED <<pause_mark, twoVars, rosterVars, sideVars>>
  \/ \E id \in RequestIds, raises \in BOOLEAN :
       TriggerConsensus(id, raises) /\ UNCHANGED <<pause_mark, twoVars, rosterVars, sideVars>>
  \/ \E id \in RequestIds : StartDebate(id) /\ UNCHANGED <<pause_mark, twoVars, rosterVars, sideVars>>
  \/ \E id \in RequestIds : PauseDebate(id) /\ UNCHANGED <<pause_mark, twoVars, rosterVars, sideVars>>
  \/ \E id \in RequestIds : ResumeDebate(id) /\ UNCHANGED <<pause_mark, twoVars, rosterVars, sideVars>>
  \/ \E r \in Runs, ok \in BOOLEAN : Generate(r, ok) /\ UNCHANGED <<pause_mark, twoVars, rosterVars, sideVars>>
  \/ \E r \in Runs, outcome \in {"ok", "lpush_raises", "expire_raises"} :
       StoreMessage(r, outcome) /\ UNCHANGED <<pause_mark, twoVars, rosterVars, sideVars>>
  \/ \E r \in Runs, ok \in BOOLEAN : StoreSession(r, ok) /\ UNCHANGED <<pause_mark, twoVars, rosterVars, sideVars>>
  \/ \E r \in Runs, ok \in BOOLEAN : StoreFinal(r, ok) /\ UNCHANGED <<pause_mark, twoVars, rosterVars, sideVars>>

SpecUnknown == InitStub /\ [][NextUnknown]_vars

\* The step is a control-surface request carrying the session id `id`.
Request(id) ==
  \/ GetSessionStatus(id)
  \/ StartDebate(id)
  \/ PauseDebate(id)
  \/ ResumeDebate(id)
  \/ \E raises \in BOOLEAN : TriggerConsensus(id, raises)

\* C17: a status read, start, pause, resume or consensus request for an
\* unknown session id is answered 404 and changes neither the session
\* registry, nor the existing session, its runs or its store entries.
C17_UnknownIdNotFound ==
  [][\A id \in RequestIds :
       (id \notin debate_sessions /\ Request(id)) =>
         /\ response' = 404
         /\ UNCHANGED <<debate_sessions, agents, agent_registry, sessionVars,
                        run, storeVars>>]_vars

\* C17 witness: a request for an unknown id was answered 404 while a session
\* exists whose debate is running with turns in its transcript.
C17_Witness ==
  /\ debate_sessions # {}
  /\ response = 404
  /\ status = "debating"
  /\ Len(messages) >= 1
  /\ \E r \in Runs : Active(r)

\* ---- the same program with a generation backend that may hang ---------------

\* The generation call of lines 87-92 never returns: the run stays suspended
\* in the await. debate_turn_timeout is not applied to the call (there is no
\* asyncio.wait_for around it), so no step of start_debate leaves this state.
GenerationHangs(r) ==
  /\ run[r].pc = "generate"
  /\ run' = [run EXCEPT ![r].pc = "hung"]
  /\ UNCHANGED <<evaluator, debate_sessions, agents, agent_registry,
                 sessionVars, storeVars, response, completed>>

\* A step of the loop of run r whose await is answered: by the generation
\* backend (unless it hangs) or by the store.
LoopStep(r) ==
  \/ \E ok \in BOOLEAN : Generate(r, ok)
  \/ GenerationHangs(r)
  \/ \E outcome \in {"ok", "lpush_raises", "expire_raises"} :
       StoreMessage(r, outcome)
  \/ \E ok \in BOOLEAN : StoreSession(r, ok)
  \/ \E ok \in BOOLEAN : StoreFinal(r, ok)

NextHang ==
  \/ Next
  \/ \E r \in Runs : GenerationHangs(r) /\ UNCHANGED <<pause_mark, twoVars, rosterVars, sideVars>>

\* The event loop resumes every run whose await has an answer.
SpecHang ==
  /\ InitStub
  /\ [][NextHang]_vars
  /\ \A r \in Runs : WF_vars(LoopStep(r) /\ UNCHANGED <<pause_mark, twoVars, rosterVars, sideVars>>)

\* C20: a generation call that never returns does not stall the round: the
\* run leaves the call (by the turn timeout) and goes on.
C20_HungGenerationTimesOut ==
  \A r \in Runs : (run[r].pc = "hung") ~> (run[r].pc # "hung")

\* ---- two sessions on one server: the operations ------------------------------

\* Every variable but those of the side models.
mainVars == <<evaluator, debate_sessions, agents, agent_registry, sessionVars,
              run, storeVars, response, completed, pause_mark, twoVars,
              rosterVars>>

\* The state of the one-session model and of roster creation, which the
\* two-session model leaves alone.
oneVars == <<evaluator, debate_sessions, agents, agent_registry, sessionVars,
             run, storeVars, response, completed, pause_mark, rosterVars, sideVars>>

\* session.dict() as store_session serialises it.
SnapshotOf(s) ==
  [status |-> s.status, current_round |-> s.current_round,
   turns |-> Len(s.messages)]

\* The frame of the session's start_debate suspended at await `p`, in round R,
\* at position i of session.agents.
LoopAt(p, R, i) == [pc |-> p, round_num |-> R, agent_idx |-> i]

\* The frame suspended in store_session, with the session.dict() being written.
StoringAt(p, s) == [pc |-> p, round_num |-> s.current_round, agent_idx |-> 0,
                    pending |-> SnapshotOf(s)]

\* A Redis glob pattern matches a key: segment by segment, "*" as the last
\* segment of the pattern matching whatever follows.
Matches(p, k) ==
  IF p[Len(p)] = "*"
  THEN /\ Len(k) >= Len(p)
       /\ \A i \in 1..(Len(p) - 1) : p[i] = k[i]
  ELSE p = k

\* clear_session_data: the keys and key patterns it deletes for session id.
ClearPatterns(id) ==
  {<<"session", id>>, <<"debate_messages", id>>, <<"a2a_messages", id>>,
   <<"adk_orchestrator", id, "*">>, <<"adk_agent_context", id, "*">>,
   <<"agent_memory", id, "*">>}

\* start_debate_session: the session is stored under session:<id> and entered
\* in debate_sessions (every participant gets its ADK agent).
CreateSessionAt(id) ==
  /\ sessions[id].status = "none"
  /\ LET s == [status |-> "created", current_round |-> 0, messages |-> << >>]
     IN  /\ sessions' = [sessions EXCEPT ![id] = s]
         /\ redis' = [redis EXCEPT ![<<"session", id>>] = <<SnapshotOf(s)>>]
  /\ UNCHANGED <<loops, oneVars>>

\* start_debate (one request per session): status, first round, first
\* participant's generation call.
StartDebateAt(id) ==
  /\ sessions[id].status # "none"
  /\ loops[id].pc = "idle"
  /\ sessions' = [sessions EXCEPT ![id].status = "debating",
                                  ![id].current_round = 1]
  /\ loops' = [loops EXCEPT ![id] = LoopAt("generate", 1, 1)]
  /\ UNCHANGED <<redis, oneVars>>

\* The generation call returns or raises: the turn, or the fallback turn of
\* the except branch, is appended to the session's transcript.
GenerateAt(id) ==
  /\ loops[id].pc = "generate"
  /\ sessions' = [sessions EXCEPT ![id].messages =
       Append(@, [session_id |-> id,
                  agent_id |-> AgentId(loops[id].agent_idx),
                  round_number |-> loops[id].round_num])]
  /\ loops' = [loops EXCEPT ![id].pc = "store_message"]
  /\ UNCHANGED <<redis, oneVars>>

\* store_debate_message(message): lpush on debate_messages:<message.session_id>
\* returns or raises; then the next participant, or the (stub) consensus check
\* and store_session of the round.
StoreDebateMessageAt(id, ok) ==
  /\ loops[id].pc = "store_message"
  /\ LET s == sessions[id]
         m == s.messages[Len(s.messages)]
         i == loops[id].agent_idx
     IN  IF ~ok
         THEN /\ loops' = [loops EXCEPT ![id] = LoopAt("failed", 0, 0)]
              /\ UNCHANGED redis
         ELSE /\ redis' = [redis EXCEPT ![<<"debate_messages", m.session_id>>]
                             = <<m>> \o @]
              /\ loops' = [loops EXCEPT ![id] =
                   IF i < TwoAgents
                   THEN LoopAt("generate", loops[id].round_num, i + 1)
                   ELSE StoringAt("store_session", s)]
  /\ UNCHANGED <<sessions, oneVars>>

\* store_session of the round returns or raises; then the next round, or the
\* end of the debate and its store_session.
StoreSessionAt(id, ok) ==
  /\ loops[id].pc = "store_session"
  /\ IF ~ok
     THEN /\ loops' = [loops EXCEPT ![id] = LoopAt("failed", 0, 0)]
          /\ UNCHANGED <<redis, sessions>>
     ELSE /\ redis' = [redis EXCEPT ![<<"session", id>>] =
                         <<loops[id].pending>>]
          /\ IF loops[id].round_num < TwoRounds
             THEN /\ sessions' = [sessions EXCEPT ![id].current_round =
                                    loops[id].round_num + 1]
                  /\ loops' = [loops EXCEPT ![id] =
                       LoopAt("generate", loops[id].round_num + 1, 1)]
             ELSE /\ sessions' = [sessions EXCEPT ![id].status = "ended"]
                  /\ loops' = [loops EXCEPT ![id] =
                       StoringAt("store_final",
                                 [sessions[id] EXCEPT !.status = "ended"])]
  /\ UNCHANGED oneVars

\* The final store_session returns or raises.
StoreFinalAt(id, ok) ==
  /\ loops[id].pc = "store_final"
  /\ redis' = IF ok THEN [redis EXCEPT ![<<"session", id>>] =
                            <<loops[id].pending>>]
              ELSE redis
  /\ loops' = [loops EXCEPT ![id] = LoopAt(IF ok THEN "done" ELSE "failed",
                                           0, 0)]
  /\ UNCHANGED <<sessions, oneVars>>

\* pause_debate on a registered session.
PauseDebateAt(id) ==
  /\ sessions[id].status # "none"
  /\ sessions' = [sessions EXCEPT ![id].status = "paused"]
  /\ UNCHANGED <<loops, redis, oneVars>>

\* resume_debate on a registered session.
ResumeDebateAt(id) ==
  /\ sessions[id].status # "none"
  /\ sessions' = [sessions EXCEPT ![id].status = "debating"]
  /\ UNCHANGED <<loops, redis, oneVars>>

\* store_agent_memory(memory) with memory.session_id = id, memory.agent_id = a.
StoreAgentMemoryAt(id, a) ==
  /\ sessions[id].status # "none"
  /\ redis' = [redis EXCEPT ![<<"agent_memory", id, a>>] =
                 <<[session_id |-> id, agent_id |-> a]>>]
  /\ UNCHANGED <<sessions, loops, oneVars>>

\* clear_session_data with key patterns that leave the session id out.
ClearEverySession(id) ==
  /\ sessions[id].status # "none"
  /\ redis' = [k \in Keys |->
                 IF \E p \in {<<"session", "*">>, <<"debate_messages", "*">>,
                              <<"agent_memory", "*">>} : Matches(p, k)
                 THEN << >> ELSE redis[k]]
  /\ UNCHANGED <<sessions, loops, oneVars>>

\* clear_session_data(id): deletes the keys of the session from Redis.
ClearSessionDataAt(id) ==
  /\ sessions[id].status # "none"
  /\ redis' = [k \in Keys |->
                 IF \E p \in ClearPatterns(id) : Matches(p, k)
                 THEN << >> ELSE redis[k]]
  /\ UNCHANGED <<sessions, loops, oneVars>>

NextTwo ==
  \/ \E id \in TwoIds :
       CreateSessionAt(id) /\ UNCHANGED evaluated
  \/ \E id \in TwoIds :
       StartDebateAt(id) /\ UNCHANGED evaluated
  \/ \E id \in TwoIds :
       GenerateAt(id) /\ UNCHANGED evaluated
  \/ \E id \in TwoIds, ok \in BOOLEAN :
       StoreDebateMessageAt(id, ok) /\ UNCHANGED evaluated
  \/ \E id \in TwoIds, ok \in BOOLEAN :
       StoreSessionAt(id, ok) /\ UNCHANGED evaluated
  \/ \E id \in TwoIds, ok \in BOOLEAN :
       StoreFinalAt(id, ok) /\ UNCHANGED evaluated
  \/ \E id \in TwoIds :
       PauseDebateAt(id) /\ UNCHANGED evaluated
  \/ \E id \in TwoIds :
       ResumeDebateAt(id) /\ UNCHANGED evaluated
  \/ \E id \in TwoIds, a \in AgentIds :
       StoreAgentMemoryAt(id, a) /\ UNCHANGED evaluated
  \/ \E id \in TwoIds :
       ClearSessionDataAt(id) /\ UNCHANGED evaluated

SpecTwo == InitStub /\ [][NextTwo]_vars

\* The step is an operation of session id.
OperationOf(id) ==
  \/ CreateSessionAt(id)
  \/ StartDebateAt(id)
  \/ GenerateAt(id)
  \/ \E ok \in BOOLEAN : StoreDebateMessageAt(id, ok)
  \/ \E ok \in BOOLEAN : StoreSessionAt(id, ok)
  \/ \E ok \in BOOLEAN : StoreFinalAt(id, ok)
  \/ PauseDebateAt(id)
  \/ ResumeDebateAt(id)
  \/ \E a \in AgentIds : StoreAgentMemoryAt(id, a)
  \/ ClearSessionDataAt(id)

\* C18: an operation of one session (create, start, loop step, turn append,
\* pause, resume, memory update, clear) leaves the other session's status,
\* current_round, transcript, loop, participant memories and store entries
\* as they are.
C18_SessionsIndependent ==
  [][\A id \in TwoIds :
       OperationOf(id) =>
         \A other \in TwoIds \ {id} :
           /\ sessions'[other] = sessions[other]
           /\ loops'[other] = loops[other]
           /\ \A k \in KeysOf(other) : redis'[k] = redis[k]]_vars

\* C18 witness: session A has run its debate to the end and its data was
\* cleared, while session B holds turns in its transcript and in the store
\* and a participant memory.
C18_Witness ==
  /\ loops["A"].pc = "done"
  /\ \A k \in KeysOf("A") : redis[k] = << >>
  /\ Len(sessions["B"].messages) >= 1
  /\ redis[<<"debate_messages", "B">>] # << >>
  /\ redis[<<"agent_memory", "B", "a1">>] # << >>
  /\ redis[<<"session", "B">>] # << >>

\* ---- evaluations of one session ------------------------------------------------

\* Bound: manual evaluations recorded in a row on an unchanged session.
MaxEvaluations == 2

\* The session the evaluations are followed on.
EvalIds == {"A"}

\* evaluate_consensus(session_id), lines 260-273: the dict it returns.
EvaluateConsensusAt(id) == StubResult

\* The step runs the consensus check of a round: the last participant's
\* store_debate_message has returned and the loop goes on to store_session.
AutoEvaluates(id) ==
  /\ loops[id].pc = "store_message"
  /\ loops'[id].pc = "store_session"

\* An operation on the session starts a new record of its evaluations: the
\* result of the consensus check if the operation ran it, nothing otherwise.
EvaluationsAfter(id) ==
  evaluated' = [evaluated EXCEPT ![id] =
                  IF AutoEvaluates(id) THEN <<EvaluateConsensusAt(id)>>
                  ELSE << >>]

\* An evaluator with a hidden call counter: the level it reports is the number
\* of evaluations before this one.
TriggerConsensusCounts(id) ==
  /\ sessions[id].status # "none"
  /\ Len(evaluated[id]) < MaxEvaluations
  /\ evaluated' = [evaluated EXCEPT ![id] =
       Append(@, [consensus_reached |-> FALSE,
                  consensus_level |-> Len(evaluated[id])])]
  /\ UNCHANGED <<sessions, loops, redis, oneVars>>

\* trigger_consensus on a registered session, whatever its status: the
\* evaluation's result is reported, nothing is stored.
TriggerConsensusAt(id) ==
  /\ sessions[id].status # "none"
  /\ Len(evaluated[id]) < MaxEvaluations
  /\ evaluated' = [evaluated EXCEPT ![id] = Append(@, EvaluateConsensusAt(id))]
  /\ UNCHANGED <<sessions, loops, redis, oneVars>>

NextEval ==
  \/ \E id \in EvalIds :
       CreateSessionAt(id) /\ EvaluationsAfter(id)
  \/ \E id \in EvalIds :
       StartDebateAt(id) /\ EvaluationsAfter(id)
  \/ \E id \in EvalIds :
       GenerateAt(id) /\ EvaluationsAfter(id)
  \/ \E id \in EvalIds, ok \in BOOLEAN :
       StoreDebateMessageAt(id, ok) /\ EvaluationsAfter(id)
  \/ \E id \in EvalIds, ok \in BOOLEAN :
       StoreSessionAt(id, ok) /\ EvaluationsAfter(id)
  \/ \E id \in EvalIds, ok \in BOOLEAN :
       StoreFinalAt(id, ok) /\ EvaluationsAfter(id)
  \/ \E id \in EvalIds :
       PauseDebateAt(id) /\ EvaluationsAfter(id)
  \/ \E id \in EvalIds :
       ResumeDebateAt(id) /\ EvaluationsAfter(id)
  \/ \E id \in EvalIds, a \in AgentIds :
       StoreAgentMemoryAt(id, a) /\ EvaluationsAfter(id)
  \/ \E id \in EvalIds :
       ClearSessionDataAt(id) /\ EvaluationsAfter(id)
  \/ \E id \in EvalIds :
       TriggerConsensusAt(id)

SpecEval == InitStub /\ [][NextEval]_vars

\* C19: the evaluations of a session that no operation has touched in between
\* all return the same result, and a step that evaluates (the manual trigger
\* in any status, or the consensus check of the loop) leaves the session's
\* transcript and every participant memory of the session as they are.
C19_EvaluationIdempotentReadOnly ==
  /\ [](\A id \in EvalIds :
          \A i, j \in 1..Len(evaluated[id]) :
            evaluated[id][i] = evaluated[id][j])
  /\ [][\A id \in EvalIds :
          (TriggerConsensusAt(id) \/ AutoEvaluates(id)) =>
            /\ sessions'[id].messages = sessions[id].messages
            /\ \A a \in AgentIds :
                 redis'[<<"agent_memory", id, a>>] =
                   redis[<<"agent_memory", id, a>>]]_vars

\* C19 witness: a paused session with a turn in its transcript and a
\* participant memory has been evaluated twice in a row.
C19_Witness ==
  /\ Len(evaluated["A"]) = MaxEvaluations
  /\ sessions["A"].status = "paused"
  /\ Len(sessions["A"].messages) >= 1
  /\ redis[<<"agent_memory", "A", "a1">>] # << >>

\* ---- the name sanitizer (AgentService._sanitize_agent_name) --------------------

\* Bound: length of the names given to the sanitizer.
MaxNameLen == 3

\* Characters, one of each class the sanitizer tells apart: [a-zA-Z] (the
\* letters of the model), [0-9], the underscore, and anything else.
Letters == {"a", "b", "e", "g", "n", "t"}
Digits == {"1"}
NameChars == {"a", "1", "_", " "}

\* A name is the sequence of its characters.
Names == UNION {[1..k -> NameChars] : k \in 0..MaxNameLen}

\* Line 459: re.sub(r'[^a-zA-Z0-9_]', '_', name).
ReplaceSpecial(name) ==
  [i \in 1..Len(name) |->
     IF name[i] \in Letters \cup Digits \cup {"_"} THEN name[i] ELSE "_"]

\* Lines 461-462: a first character that is neither a letter nor an underscore
\* gets the prefix agent_ put before it.
PrefixAgent(s) ==
  IF s # << >> /\ s[1] \notin Letters /\ s[1] # "_"
  THEN <<"a", "g", "e", "n", "t", "_">> \o s
  ELSE s

\* Line 464: str.strip('_').
StripUnderscores(s) ==
  LET kept == {i \in 1..Len(s) : s[i] # "_"}
  IN  IF kept = {} THEN << >>
      ELSE SubSeq(s, CHOOSE i \in kept : \A j \in kept : i <= j,
                     CHOOSE i \in kept : \A j \in kept : i >= j)

\* Lines 455-468: _sanitize_agent_name.
SanitizeAgentName(name) ==
  LET stripped == StripUnderscores(PrefixAgent(ReplaceSpecial(name)))
  IN  IF stripped = << >> THEN <<"a", "g", "e", "n", "t">> ELSE stripped

\* Every name up to the bound may be the one given.
InitSanitize ==
  /\ InitApp
  /\ evaluator = "stub"
  /\ roster = NoCall
  /\ InitSide
  /\ sanitize \in {[name |-> n, out |-> << >>, done |-> FALSE] : n \in Names}

\* The sanitizer is called on the name.
CallSanitize ==
  /\ ~sanitize.done
  /\ sanitize' = [sanitize EXCEPT !.out = SanitizeAgentName(sanitize.name),
                                  !.done = TRUE]
  /\ UNCHANGED <<evaluator, debate_sessions, agents, agent_registry,
                 sessionVars, run, storeVars, response, completed, pause_mark,
                 twoVars, roster, sideVars>>

NextSanitize == CallSanitize

SpecSanitize == InitSanitize /\ [][NextSanitize]_vars

\* C23: for every name, the sanitizer returns a non-empty string of letters,
\* digits and underscores whose first character is not a digit.
C23_SanitizedIsIdentifier ==
  sanitize.done =>
    /\ sanitize.out # << >>
    /\ \A i \in 1..Len(sanitize.out) :
         sanitize.out[i] \in Letters \cup Digits \cup {"_"}
    /\ sanitize.out[1] \notin Digits

\* ---- roster creation (AgentService.generate_agents) ----------------------------

\* Bounds: the agent_count asked for, the providers that have a client, the
\* agents in a generated answer, the custom agents given.
MaxCount == 11
MaxProviders == 2
MaxGenerated == 2
MaxCustom == 3

\* Settings.debate_min_agents, Settings.debate_max_agents.
DebateMinAgents == 3
DebateMaxAgents == 10

\* The "name" entries of base_agents in _create_fallback_agents.
FallbackLibrary ==
  <<"Analyst", "Advocate", "Pragmatist", "Innovator", "Strategist", "Guardian">>

\* str(n) of the f-string of line 552.
Decimal(n) ==
  <<"1", "2", "3", "4", "5", "6", "7", "8", "9", "10", "11", "12">>[n]

\* Names the generated answer or the caller may give to agents; the first two
\* differ only in a character the sanitizer replaces.
SourceNames == {<<"a", " ", "b">>, <<"a", "_", "b">>, <<"b">>}

\* The lists of custom agents a caller may pass, and the "agents" arrays a
\* generated answer may hold (whatever agent_count was asked for).
NameLists(n) == UNION {[1..k -> SourceNames] : k \in 0..n}

\* Agent(**data): the fields of the Agent model that matter here. The model
\* has no llm_provider field, so a value given for it is dropped.
AgentOf(name) == [name |-> name]

\* Lines 470-556: _create_fallback_agents(agent_count). The name is the
\* library name, followed by " <i + 1>" once the library has been used up.
CreateFallbackAgents(count) ==
  LET size == IF count < Len(FallbackLibrary) THEN count
              ELSE Len(FallbackLibrary)
      selected == SubSeq(FallbackLibrary, 1, size)
  IN  IF count = 0 THEN << >>
      ELSE [i \in 1..count |->
              LET base == selected[((i - 1) % size) + 1]
              IN  AgentOf(IF i - 1 >= size THEN <<base, " ", Decimal(i)>>
                          ELSE <<base>>)]

\* Lines 424-444: one Agent per entry of the "agents" array, its name
\* sanitized.
ParseAgents(names) ==
  IF names = << >> THEN << >>
  ELSE [i \in 1..Len(names) |-> AgentOf(SanitizeAgentName(names[i]))]

\* Lines 90-97 with the list `built` in the local `agents`: the providers are
\* selected (line 91 raises when no provider has a client), then
\* agent.llm_provider is assigned for each agent; Agent has no such field, so
\* the first assignment raises ValueError. Only an empty list is returned.
AssignAndReturn(built, src) ==
  roster' = [roster EXCEPT
               !.pc = IF roster.available >= 1 /\ built = << >>
                      THEN "returned" ELSE "raised",
               !.source = src,
               !.agents = built]

\* generate_agents(scenario, agent_count, custom_agents) up to its first await.
\* With custom agents line 52 reads agent.llm_provider of the first one, which
\* raises AttributeError. Without, the first provider that has a client is
\* asked (the call suspends); with no client at all the fallback agents are
\* built and line 91 raises.
GenerateAgents(count, custom, available) ==
  /\ roster.pc = "idle"
  /\ roster' =
       IF custom # << >>
       THEN [NoCall EXCEPT !.pc = "raised", !.count = count,
                           !.custom = custom, !.available = available,
                           !.source = "custom"]
       ELSE IF available = 0
       THEN [NoCall EXCEPT !.pc = "raised", !.count = count,
                           !.source = "fallback",
                           !.agents = CreateFallbackAgents(count)]
       ELSE [NoCall EXCEPT !.pc = "generating", !.count = count,
                           !.available = available,
                           !.tried = 1, !.calls = 1]
  /\ UNCHANGED <<evaluator, debate_sessions, agents, agent_registry,
                 sessionVars, run, storeVars, response, completed, pause_mark,
                 twoVars, sanitize, sideVars>>

\* The generation call of lines 70-74 raises, or returns text that json.loads
\* rejects, or returns a JSON object whose "agents" array holds `names`.
GenerateResponse(kind, names) ==
  /\ roster.pc = "generating"
  /\ kind = "parsed" \/ names = << >>
  /\ IF kind = "raises"
     THEN IF roster.tried < roster.available
          THEN roster' = [roster EXCEPT !.tried = @ + 1, !.calls = @ + 1]
          ELSE AssignAndReturn(CreateFallbackAgents(roster.count), "fallback")
     ELSE IF kind = "unparsable"
     THEN AssignAndReturn(CreateFallbackAgents(roster.count), "fallback")
     ELSE AssignAndReturn(ParseAgents(names),
                          IF names = << >> THEN "empty" ELSE "parsed")
  /\ UNCHANGED <<evaluator, debate_sessions, agents, agent_registry,
                 sessionVars, run, storeVars, response, completed, pause_mark,
                 twoVars, sanitize, sideVars>>

NextRoster ==
  \/ \E count \in 0..MaxCount, custom \in NameLists(MaxCustom),
        available \in 0..MaxProviders :
       GenerateAgents(count, [i \in DOMAIN custom |-> AgentOf(custom[i])],
                      available)
  \/ \E kind \in {"raises", "unparsable", "parsed"},
        names \in NameLists(MaxGenerated) :
       GenerateResponse(kind, names)

SpecRoster == InitStub /\ [][NextRoster]_vars

\* C21: a call with agent_count outside the configured bounds makes no
\* generation call and produces no roster.
C21_InvalidCountRejected ==
  (roster.pc # "idle" /\ roster.custom = << >>
     /\ (roster.count < DebateMinAgents \/ roster.count > DebateMaxAgents))
    => roster.calls = 0 /\ roster.pc = "raised"

\* The names of a list of agents are pairwise distinct.
DistinctNames(list) ==
  \A i, j \in 1..Len(list) : i # j => list[i].name # list[j].name

\* C22: without custom agents and with a valid agent_count, a call in which
\* the generated answer did not parse, or parsed to no agent, or in which
\* every provider failed, returns the fallback library sized to agent_count,
\* with pairwise distinct names.
C22_FallbackRosterOfCount ==
  (roster.pc \in {"returned", "raised"} /\ roster.custom = << >>
     /\ roster.count \in DebateMinAgents..DebateMaxAgents
     /\ roster.calls >= 1 /\ roster.source \in {"fallback", "empty"})
    => /\ roster.pc = "returned"
       /\ roster.agents = CreateFallbackAgents(roster.count)
       /\ Len(roster.agents) = roster.count
       /\ DistinctNames(roster.agents)

\* C24: the agents a call with a valid agent_count has built (from a generated
\* answer or from the fallback library) have pairwise distinct names: names
\* that sanitize to the same identifier are told apart.
C24_RosterNamesUnique ==
  (roster.pc \in {"returned", "raised"} /\ roster.available >= 1
     /\ roster.count \in DebateMinAgents..DebateMaxAgents)
    => DistinctNames(roster.agents)

\* C25: with a provider available, a call with custom agents returns exactly
\* those agents, in the given order, each with a provider bound.
C25_CustomRosterReturned ==
  (roster.pc \in {"returned", "raised"} /\ roster.custom # << >>
     /\ roster.available >= 1)
    => /\ roster.pc = "returned"
       /\ Len(roster.agents) = Len(roster.custom)
       /\ \A i \in 1..Len(roster.custom) :
            /\ roster.agents[i].name = roster.custom[i].name
            /\ "llm_provider" \in DOMAIN roster.agents[i]

\* C26: a run of the negotiation loop whose generation and store calls all
\* return ends with the session's status being consensus_reached or ended:
\* the step in which start_debate returns leaves one of the two (one
\* start-debate request, every participant registered).
C26_RunEndsConsensusOrEnded ==
  [][\A r \in Runs :
       (/\ AllRegistered
        /\ SingleRun
        /\ Active(r)
        /\ run'[r].pc = "done")
         => status' \in {"consensus_reached", "ended"}]_vars

\* The turn is in the Redis list of the session.
Persisted(m) == \E j \in 1..Len(store_messages) : store_messages[j] = m

\* C27: when a turn of round R is generated, every turn of an earlier round
\* that the transcript holds is persisted, and the consensus check of round R
\* finds no turn of a later round in the transcript (on a session whose
\* participants are all registered, while no other run of the loop is active).
C27_RoundsPersistedInOrder ==
  /\ [][\A r \in Runs, ok \in BOOLEAN :
          (/\ Generate(r, ok)
           /\ AllRegistered
           /\ \A q \in Runs \ {r} : ~Active(q))
            => \A i \in 1..Len(messages) :
                 messages[i].round_number < run[r].round_num
                   => Persisted(messages[i])]_vars
  /\ [][\A R \in completed' \ completed :
          (AllRegistered /\ Cardinality({q \in Runs : Active(q)}) <= 1)
            => \A i \in 1..Len(messages) : messages[i].round_number <= R]_vars

\* C28: the transcript is append-only: every step leaves it unchanged or
\* extends it by one turn at the end, whatever request or loop step it is.
C28_TranscriptAppendOnly ==
  [][messages' = messages \/ AppendsOneTurn]_vars

\* C28 witness: the transcript holds three turns after a second start request,
\* a store failure that left one run, and a pause, with a loop still running.
C28_Witness ==
  /\ Len(messages) >= 3
  /\ status = "paused"
  /\ \E r, q \in Runs : run[r].pc = "failed" /\ Active(q)

\* C29: the round numbers of the transcript's turns are non-decreasing along
\* the transcript (on a session whose participants are all registered).
C29_RoundNumbersNonDecreasing ==
  AllRegistered =>
    \A i, j \in 1..Len(messages) :
      i < j => messages[i].round_number <= messages[j].round_number

\* C30: current_round is 0 until the first round begins, and every step that
\* changes it adds exactly 1 (on a session whose participants are all
\* registered).
C30_CurrentRoundStepsByOne ==
  /\ [](status \in {"none", "created"} => current_round = 0)
  /\ [][(AllRegistered /\ current_round' # current_round)
          => current_round' = current_round + 1]_vars

\* ---- consensus state of the session (C31) ---------------------------------

\* C31: the session holds a consensus result exactly when consensus_reached
\* is set; a session whose status is consensus_reached holds a result; and
\* consensus_reached, once true, is never false again.
C31_ResultIffReached ==
  /\ [](consensus_reached <=> consensus_result # NoResult)
  /\ [](status = "consensus_reached" => consensus_result # NoResult)
  /\ [][consensus_reached => consensus_reached']_vars

\* Consensus was reached and recorded, and the session was paused afterwards:
\* the result stays although the status moved on.
C31_Witness ==
  /\ consensus_reached
  /\ consensus_result \in [consensus_reached : {TRUE}, consensus_level : Levels]
  /\ status = "paused"

\* ---- context of a turn: the operations -------------------------------------
\* start_debate with its suspension points, reduced to what the context of a
\* turn depends on: the transcript, the round counter and the frames. Every
\* participant has an ADK agent; the stores succeed and hold no state here.

\* Line 165: messages = session.messages[-5:] if len(session.messages) > 5
\* else session.messages. The slice is a new list; otherwise the local is
\* the transcript's own list.
TakeRecent(msgs) ==
  IF Len(msgs) > RecentWindow
  THEN [alias |-> FALSE,
        copy |-> SubSeq(msgs, Len(msgs) - RecentWindow + 1, Len(msgs))]
  ELSE [alias |-> TRUE, copy |-> << >>]

\* The list a local stands for when it is read.
ListOf(loc) == IF loc.alias THEN ctx_messages ELSE loc.copy

\* The turn participant i appends in round R, be it the reply (lines 97-111)
\* or the fallback turn (lines 115-126); seq stands for the message id.
CtxTurn(R, i) ==
  [seq |-> Len(ctx_messages) + 1, agent_id |-> i, round_number |-> R]

\* Lines 79, 165-166: _build_agent_context is called for participant i of
\* round R, takes the recent turns and suspends in get_agent_memory.
CtxBuildCall(r, R, i) ==
  ctx_run' = [ctx_run EXCEPT ![r] =
     CtxFrame("get_agent_memory", R, i, TakeRecent(ctx_messages), NoContext,
              ctx_messages)]

\* Lines 68-70, 141-145: the next round of the range, or the final store.
CtxNextRound(r, R) ==
  IF R <= CtxRounds
  THEN /\ ctx_round' = R
       /\ CtxBuildCall(r, R, 1)
  ELSE /\ UNCHANGED ctx_round
       /\ ctx_run' = [ctx_run EXCEPT ![r] =
            CtxFrame("store_final", 0, 0, NoLocal, NoContext, << >>)]

\* POST start-debate (main.py:139-154): the loop runs from current_round + 1
\* up to its first await.
CtxStartDebate(r) ==
  /\ ctx_run[r].pc = "idle"
  /\ \A q \in CtxRunIds : q < r => ctx_run[q].pc # "idle"
  /\ CtxNextRound(r, ctx_round + 1)
  /\ UNCHANGED <<ctx_messages, mainVars, recentVars, memoryVars>>

\* Lines 166-172, 84: get_agent_memory returns None or the stored memory,
\* the dict is built (round is read now) and _build_agent_prompt reads it.
\* With no memory the run suspends in the generation call; a stored memory is
\* an AgentMemory object, agent_memory.get (line 193) raises and the except
\* clause appends the fallback turn.
CtxBuildReturn(r, mem) ==
  /\ ctx_run[r].pc = "get_agent_memory"
  /\ LET f == ctx_run[r]
         c == [recent_messages |-> ListOf(f.local), agent_memory |-> mem,
               round |-> ctx_round]
     IN  IF mem = "None"
         THEN /\ ctx_run' = [ctx_run EXCEPT ![r].pc = "generate",
                                            ![r].context = c]
              /\ UNCHANGED ctx_messages
         ELSE /\ ctx_messages' =
                   Append(ctx_messages, CtxTurn(f.round_num, f.agent_idx))
              /\ ctx_run' = [ctx_run EXCEPT ![r].pc = "store_message",
                                            ![r].context = c]
  /\ UNCHANGED <<ctx_round, mainVars, recentVars, memoryVars>>

\* Lines 87-128: the generation call returns or raises; the turn is appended
\* and the run suspends in store_debate_message.
CtxGenerate(r, ok) ==
  /\ ctx_run[r].pc = "generate"
  /\ ctx_messages' =
       Append(ctx_messages,
              CtxTurn(ctx_run[r].round_num, ctx_run[r].agent_idx))
  /\ ctx_run' = [ctx_run EXCEPT ![r].pc = "store_message"]
  /\ UNCHANGED <<ctx_round, mainVars, recentVars, memoryVars>>

\* Line 130 returns: the next participant's context is built, or the round
\* ends (lines 132-140: no consensus, store_session).
CtxStoreMessage(r) ==
  /\ ctx_run[r].pc = "store_message"
  /\ IF ctx_run[r].agent_idx < CtxAgents
     THEN CtxBuildCall(r, ctx_run[r].round_num, ctx_run[r].agent_idx + 1)
     ELSE ctx_run' = [ctx_run EXCEPT ![r] =
            CtxFrame("store_session", ctx_run[r].round_num, 0, NoLocal,
                     NoContext, << >>)]
  /\ UNCHANGED <<ctx_messages, ctx_round, mainVars, recentVars, memoryVars>>

\* Line 140 returns: the next round.
CtxStoreSession(r) ==
  /\ ctx_run[r].pc = "store_session"
  /\ CtxNextRound(r, ctx_run[r].round_num + 1)
  /\ UNCHANGED <<ctx_messages, mainVars, recentVars, memoryVars>>

\* Line 144 returns: start_debate is over.
CtxStoreFinal(r) ==
  /\ ctx_run[r].pc = "store_final"
  /\ ctx_run' = [ctx_run EXCEPT ![r] = CtxDone]
  /\ UNCHANGED <<ctx_messages, ctx_round, mainVars, recentVars, memoryVars>>

NextContext ==
  \/ \E r \in CtxRunIds : CtxStartDebate(r)
  \/ \E r \in CtxRunIds, mem \in {"None", "stored"} : CtxBuildReturn(r, mem)
  \/ \E r \in CtxRunIds, ok \in BOOLEAN : CtxGenerate(r, ok)
  \/ \E r \in CtxRunIds : CtxStoreMessage(r)
  \/ \E r \in CtxRunIds : CtxStoreSession(r)
  \/ \E r \in CtxRunIds : CtxStoreFinal(r)

SpecContext == InitStub /\ [][NextContext]_vars

\* The last n elements of a sequence, all of it when it is shorter.
LastOf(seq, n) ==
  IF Len(seq) > n THEN SubSeq(seq, Len(seq) - n + 1, Len(seq)) ELSE seq

\* Frames that hold a context dict: from the return of _build_agent_context
\* to the next call.
HoldsContext(r) == ctx_run[r].pc \in {"generate", "store_message"}

\* C32: the context built for a participant holds as recent window exactly
\* the last min(5, n) turns of the n-turn transcript it was called on, in
\* transcript order (so never the whole transcript when n > 5, and nothing
\* when n = 0); this also when the participant has no stored memory. The
\* scenario and the round are copied into the dict as the session holds them.
C32_ContextRecentWindow ==
  \A r \in CtxRunIds :
    HoldsContext(r) =>
      LET f == ctx_run[r]
          n == Len(f.at_call)
      IN  /\ f.context.recent_messages = LastOf(f.at_call, RecentWindow)
          /\ Len(f.context.recent_messages) =
               (IF n < RecentWindow THEN n ELSE RecentWindow)
          /\ n > RecentWindow => f.context.recent_messages # f.at_call
          /\ n = 0 => f.context.recent_messages = << >>

\* C33: the context built for the participant at position j of round R holds
\* every round-R turn of a position i < j that was in the transcript when the
\* context was built and lies among its last 5 turns, and holds no turn that
\* was appended after the context was built.
C33_TurnByTurnVisibility ==
  \A r \in CtxRunIds :
    HoldsContext(r) =>
      LET f == ctx_run[r]
          t == f.at_call
          w == f.context.recent_messages
      IN  /\ \A k \in 1..Len(t) :
               /\ k > Len(t) - RecentWindow
               /\ t[k].round_number = f.round_num
               /\ t[k].agent_id < f.agent_idx
               => \E x \in 1..Len(w) : w[x] = t[k]
          /\ \A x \in 1..Len(w) : w[x].seq <= Len(t)

\* ---- recent-turns read (RedisTool get_recent_messages) ---------------------

MaxStored == 5      \* turns stored for the session
MaxLimit  == 3      \* limit of a get_recent_messages call: 1..MaxLimit

\* The k-th turn stored for the session (one participant: the turn of round k).
StoredTurn(k) == [agent_id |-> 1, round_number |-> k, error |-> FALSE]

\* store_debate_message (memory_service.py:247-260): lpush puts the turn at
\* the head of the list debate_messages:<id>.
PushDebateMessage ==
  /\ Len(store_messages) < MaxStored
  /\ store_messages' = <<StoredTurn(Len(store_messages) + 1)>> \o store_messages
  /\ UNCHANGED <<evaluator, debate_sessions, agents, agent_registry,
                 sessionVars, run, store_session, response, completed,
                 pause_mark, twoVars, rosterVars, sideVars>>

\* get_session_messages (memory_service.py:288-302): lrange(key, 0, -1), the
\* list from its head on; any error is logged and [] returned.
GetSessionMessages(ok) == IF ok THEN store_messages ELSE << >>

\* mcp_tools.py:144: messages[-limit:] if len(messages) > limit else messages
RecentMessages(msgs, limit) ==
  IF Len(msgs) > limit
  THEN SubSeq(msgs, Len(msgs) - limit + 1, Len(msgs))
  ELSE msgs

\* RedisTool.execute("get_recent_messages", session_id, limit): total records
\* how many turns the list held at the call.
GetRecentMessages(limit, ok) ==
  /\ recent' = [called |-> TRUE, limit |-> limit,
                total |-> Len(store_messages), ok |-> ok,
                data |-> RecentMessages(GetSessionMessages(ok), limit)]
  /\ UNCHANGED <<mainVars, contextVars, memoryVars>>

NextRecent ==
  \/ PushDebateMessage
  \/ \E limit \in 1..MaxLimit, ok \in BOOLEAN : GetRecentMessages(limit, ok)

SpecRecent == InitStub /\ [][NextRecent]_vars

\* The elements of a sequence.
Range(seq) == {seq[i] : i \in 1..Len(seq)}

\* C34: a recent-turns read with limit n that the store answers returns the
\* n most recently stored turns of the session, and all of them when the
\* session holds at most n.
C34_RecentReadNewest ==
  recent.called /\ recent.ok =>
    LET n == recent.limit
        k == recent.total
    IN  /\ Range(recent.data) =
             {StoredTurn(j) : j \in {i \in 1..k : i > k - n}}
        /\ Len(recent.data) = (IF k < n THEN k ELSE n)

\* ---- memory tool (AgentMemoryTool.execute) ---------------------------------
\* One (session, participant) pair; the memory is the value of the Redis key
\* agent_memory:<S>:<P>. The timestamps (last_updated, the timestamp of an
\* interaction) are left out.

\* The operations a caller may name; "summarize" stands for any other name.
Operations == {"update_stance", "add_reasoning", "add_proposal",
               "track_interaction", "summarize"}
Appends == {"add_reasoning", "add_proposal", "track_interaction"}

\* The parameter of the operation; "": missing or empty.
Values == {"", "p", "q"}

\* Lines 265-270: AgentMemory(agent_id, session_id, current_stance="").
NewMemory ==
  [current_stance |-> "", past_proposals |-> << >>, past_reasoning |-> << >>,
   interaction_history |-> << >>]

\* The values the key may hold before the calls: none, or a memory earlier
\* calls have filled.
StoredMemories ==
  {<< >>,
   <<[current_stance |-> "s", past_proposals |-> <<"a", "b">>,
      past_reasoning |-> <<"a">>, interaction_history |-> <<"a">>]>>}

\* Lines 272-311: the change the operation makes to the memory object.
ApplyOperation(m, op, v) ==
  IF op = "update_stance" THEN [m EXCEPT !.current_stance = v]
  ELSE IF op = "add_reasoning" THEN [m EXCEPT !.past_reasoning = Append(@, v)]
  ELSE IF op = "add_proposal" THEN [m EXCEPT !.past_proposals = Append(@, v)]
  ELSE [m EXCEPT !.interaction_history = Append(@, v)]

InitMemory ==
  /\ InitApp
  /\ evaluator = "stub"
  /\ roster = NoCall
  /\ sanitize = NoName
  /\ InitContext
  /\ recent = NoRecent
  /\ memory \in StoredMemories
  /\ calls = [c \in Callers |-> NoToolCall]

\* Lines 251-262: execute(operation, session_id, agent_id, parameter) is
\* called and suspends in get_agent_memory.
MemoryCall(c, op, v) ==
  /\ calls[c].pc = "idle"
  /\ calls' = [calls EXCEPT ![c] =
       [NoToolCall EXCEPT !.pc = "get_agent_memory", !.operation = op,
                          !.value = v]]
  /\ UNCHANGED <<memory, mainVars, contextVars, recentVars>>

\* Lines 262-320: get_agent_memory returns the stored memory, or None when
\* the key is absent or the read failed (memory_service.py:243-245); a new
\* memory is made for None, the operation applied, and the call suspends in
\* store_agent_memory. A missing parameter or an unknown operation returns
\* an error and stores nothing.
MemoryRead(c, ok) ==
  /\ calls[c].pc = "get_agent_memory"
  /\ LET got == IF ok THEN memory ELSE << >>
         m   == IF got = << >> THEN NewMemory ELSE got[1]
     IN  calls' = [calls EXCEPT ![c] =
           IF calls[c].operation = "summarize" \/ calls[c].value = ""
           THEN [@ EXCEPT !.pc = "done", !.read_ok = ok, !.success = FALSE]
           ELSE [@ EXCEPT !.pc = "store_agent_memory", !.read_ok = ok,
                          !.local = <<ApplyOperation(m, calls[c].operation,
                                                     calls[c].value)>>]]
  /\ UNCHANGED <<memory, mainVars, contextVars, recentVars>>

\* Lines 320-332: store_agent_memory (setex of the whole memory) returns or
\* raises; the call returns success or the error.
MemoryStore(c, ok) ==
  /\ calls[c].pc = "store_agent_memory"
  /\ memory' = IF ok THEN calls[c].local ELSE memory
  /\ calls' = [calls EXCEPT ![c].pc = "done", ![c].success = ok]
  /\ UNCHANGED <<mainVars, contextVars, recentVars>>

NextMemory ==
  \/ \E c \in Callers, op \in Operations, v \in Values : MemoryCall(c, op, v)
  \/ \E c \in Callers, ok \in BOOLEAN : MemoryRead(c, ok)
  \/ \E c \in Callers, ok \in BOOLEAN : MemoryStore(c, ok)

SpecMemory == InitMemory /\ [][NextMemory]_vars

\* The memory the key stands for: a memory is made on first access.
MemoryNow == IF memory = << >> THEN NewMemory ELSE memory[1]

\* C35: an operation that succeeds changes the participant's memory by its
\* own effect only: update_stance overwrites current_stance, add_proposal,
\* add_reasoning and track_interaction append one entry at the end of their
\* list; every other field, and every entry there was, stays as it is; the
\* memory exists afterwards.
C35_MemoryShapeKept ==
  [][\A c \in Callers :
       calls[c].pc = "store_agent_memory" /\ calls'[c].pc = "done"
         /\ calls'[c].success
       => memory' = <<ApplyOperation(MemoryNow, calls[c].operation,
                                     calls[c].value)>>]_vars

\* The list of the memory an append operation adds to.
EntriesOf(m, op) ==
  IF op = "add_reasoning" THEN m.past_reasoning
  ELSE IF op = "add_proposal" THEN m.past_proposals
  ELSE m.interaction_history

\* C40: when two append operations on the same (session, participant) have
\* both read the stored memory and both returned success, however their
\* steps interleave, the stored memory holds the entry of each.
C40_AppendsNotLost ==
  (\A c \in Callers :
      /\ calls[c].pc = "done"
      /\ calls[c].success
      /\ calls[c].read_ok
      /\ calls[c].operation \in Appends)
  => \A c \in Callers :
       calls[c].value \in Range(EntriesOf(MemoryNow, calls[c].operation))

\* ---- participant memory and the loop (C36) ---------------------------------

\* The key of the memory of participant a in session id.
MemoryKey(id, a) == <<"agent_memory", id, a>>

\* The loop of session id is processing a turn of participant a.
ProcessesTurnOf(id, a) ==
  /\ loops[id].pc \in {"generate", "store_message"}
  /\ AgentId(loops[id].agent_idx) = a

\* The loop of session id finishes the turn of the participant it is at.
TurnDone(id) ==
  /\ loops[id].pc = "store_message"
  /\ loops'[id].pc \notin {"store_message", "failed"}

\* C36: when the loop has processed a turn of participant P in session S,
\* the memory of (S, P) holds the result; and the memory of (S, P) is
\* written only while the loop of S processes a turn of P.
C36_MemoryMergedByLoopOnly ==
  [][\A id \in TwoIds :
       /\ TurnDone(id) =>
            redis'[MemoryKey(id, AgentId(loops[id].agent_idx))] # << >>
       /\ \A a \in AgentIds :
            /\ redis'[MemoryKey(id, a)] # redis[MemoryKey(id, a)]
            /\ redis'[MemoryKey(id, a)] # << >>
            => ProcessesTurnOf(id, a)]_vars

\* ---- the stored session record when a run stops (C37) ----------------------

C38_CreationAtomic ==
  [][/\ debate_sessions = {} /\ response' = 500
        => /\ debate_sessions' = {}
           /\ store_session' = store_session
           /\ status' = "none"
     /\ debate_sessions = {} /\ debate_sessions' = {}
        => response' \in {404, 500}
     /\ debate_sessions = {} /\ debate_sessions' # {}
        => /\ response' = 200
           /\ status' = "created"
           /\ current_round' = 0
           /\ ~consensus_reached'
           /\ messages' = << >>
           /\ store_session' = Snapshot("created", 0, FALSE, NoResult)]_vars

\* A creation has failed and no session exists.
C38_Witness ==
  /\ debate_sessions = {}
  /\ response = 500
  /\ store_session = NoSession

\* ---- a debating session has a running loop (C39) ------------------------------

\* C39: whenever the session's status is debating, a run of start_debate for
\* it is in progress (which is what would carry it on to paused,
\* consensus_reached or ended): debating never stands without a running loop.
C39_DebatingHasRunningLoop ==
  status = "debating" => \E r \in Runs : Active(r)

====
